---- MODULE Spec2Model ----
(***************************************************************************)
(* Model of src/prompt_generator.py: the prompt generators for code        *)
(* review.  Python strings are sequences of one-character strings, so that *)
(* strip, splitlines, split, upper/lower and substring search are computed *)
(* character by character as the interpreter does.  Every operation of the *)
(* module is a pure function; one action per operation records the call    *)
(* (op, args) and what it returned (result).                               *)
(***************************************************************************)
EXTENDS Integers, Sequences, FiniteSets, TLC

VARIABLES op, args, result

vars == <<op, args, result>>

(* ------------------------------ bounds -------------------------------- *)

\* longest code text given to _clean_code
MaxLen == 6

\* most pieces a review text given to extract_key_info is made of
MaxPieces == 5

\* most chunks in added_code and in deleted_code
MaxChunks == 2

\* most entries in similar_codes
MaxMatches == 2

\* most pieces a model name is made of
MaxNamePieces == 3

(* --------------------------- str primitives --------------------------- *)

\* characters str.strip()/lstrip() remove and str.isspace() accepts
Whitespace == {" ", "\t", "\n", "\r"}

\* line boundaries of str.splitlines() ("\r\n" counts as one)
LineBreaks == {"\n", "\r"}

\* all strings over alphabet A of length at most n
StringsUpTo(A, n) == UNION {[1..k -> A] : k \in 0..n}

Min(S) == CHOOSE x \in S : \A y \in S : x <= y

\* s[n:]
DropFirst(s, n) == IF n >= Len(s) THEN <<>> ELSE SubSeq(s, n + 1, Len(s))

\* number of leading whitespace characters: len(s) - len(s.lstrip())
RECURSIVE LeadingWs(_)
LeadingWs(s) ==
    IF s = <<>> \/ Head(s) \notin Whitespace THEN 0 ELSE 1 + LeadingWs(Tail(s))

\* number of trailing whitespace characters
RECURSIVE TrailingWs(_)
TrailingWs(s) ==
    IF s = <<>> \/ s[Len(s)] \notin Whitespace THEN 0
    ELSE 1 + TrailingWs(SubSeq(s, 1, Len(s) - 1))

\* str.lstrip()
LStrip(s) == DropFirst(s, LeadingWs(s))

\* str.rstrip()
RStrip(s) == SubSeq(s, 1, Len(s) - TrailingWs(s))

\* str.strip()
Strip(s) == RStrip(LStrip(s))

\* index of the first line boundary of s, 0 when there is none
FirstBreak(s) ==
    IF \E i \in 1..Len(s) : s[i] \in LineBreaks
    THEN Min({i \in 1..Len(s) : s[i] \in LineBreaks}) ELSE 0

\* str.splitlines(): no final empty line after a trailing boundary
RECURSIVE SplitLines(_)
SplitLines(s) ==
    IF s = <<>> THEN <<>>
    ELSE LET i == FirstBreak(s) IN
         IF i = 0 THEN <<s>>
         ELSE LET j == IF s[i] = "\r" /\ i < Len(s) /\ s[i + 1] = "\n"
                       THEN i + 1 ELSE i
              IN <<SubSeq(s, 1, i - 1)>> \o SplitLines(DropFirst(s, j))

\* sep.join(parts)
RECURSIVE Join(_, _)
Join(parts, sep) ==
    IF parts = <<>> THEN <<>>
    ELSE IF Len(parts) = 1 THEN parts[1]
    ELSE parts[1] \o sep \o Join(Tail(parts), sep)

\* str.split(sep) for a one-character sep: always at least one part
RECURSIVE Split(_, _)
Split(s, sep) ==
    IF \E i \in 1..Len(s) : s[i] = sep
    THEN LET i == Min({k \in 1..Len(s) : s[k] = sep})
         IN <<SubSeq(s, 1, i - 1)>> \o Split(DropFirst(s, i), sep)
    ELSE <<s>>

\* sub in s
Contains(s, sub) ==
    \E i \in 0..(Len(s) - Len(sub)) : SubSeq(s, i + 1, i + Len(sub)) = sub

LowerLetters == <<"a", "b", "c", "d", "e", "f", "g", "h", "i", "j", "k", "l", "m", "n", "o", "p", "q", "r", "s", "t", "u", "v", "w", "x", "y", "z">>

UpperLetters == <<"A", "B", "C", "D", "E", "F", "G", "H", "I", "J", "K", "L", "M", "N", "O", "P", "Q", "R", "S", "T", "U", "V", "W", "X", "Y", "Z">>

\* position of c in letters, 0 when it is not one of them
LetterIndex(letters, c) ==
    IF \E i \in 1..Len(letters) : letters[i] = c
    THEN CHOOSE i \in 1..Len(letters) : letters[i] = c ELSE 0

\* str.upper()
Upper(s) ==
    [k \in 1..Len(s) |->
        LET i == LetterIndex(LowerLetters, s[k])
        IN IF i = 0 THEN s[k] ELSE UpperLetters[i]]

\* str.lower()
Lower(s) ==
    [k \in 1..Len(s) |->
        LET i == LetterIndex(UpperLetters, s[k])
        IN IF i = 0 THEN s[k] ELSE LowerLetters[i]]

(* ------------------- CodeReviewPromptGenerator ------------------------ *)

\* [line for line in lines if line.strip()]
NonEmptyLines(lines) == SelectSeq(lines, LAMBDA line : Strip(line) # <<>>)

\* min(len(line) - len(line.lstrip()) for line in non_empty_lines)
MinIndent(lines) ==
    LET ne == NonEmptyLines(lines)
    IN Min({LeadingWs(ne[k]) : k \in 1..Len(ne)})

\* the loop that builds cleaned_lines
CleanedLines(lines, min_indent) ==
    [k \in 1..Len(lines) |->
        IF Strip(lines[k]) # <<>> THEN DropFirst(lines[k], min_indent) ELSE <<>>]

\* the body of _clean_code once the text has been split into lines
CleanLines(lines) ==
    IF lines = <<>> THEN <<>>
    ELSE IF NonEmptyLines(lines) = <<>> THEN <<>>
    ELSE Join(CleanedLines(lines, MinIndent(lines)), <<"\n">>)

\* variant: the text is split without being trimmed first
clean_code_unstripped(code) ==
    IF code = <<>> THEN code ELSE CleanLines(SplitLines(code))

\* variant: only the front of the text is trimmed
clean_code_lstripped(code) ==
    IF code = <<>> THEN code ELSE CleanLines(SplitLines(LStrip(code)))

\* CodeReviewPromptGenerator._clean_code
_clean_code(code) ==
    IF code = <<>> THEN code ELSE CleanLines(SplitLines(Strip(code)))

(* ------------- generate_summary_prompt.extract_key_info --------------- *)

NoIssues == <<"N", "o", " ", "i", "s", "s", "u", "e", "s">>

Sorry == <<"s", "o", "r", "r", "y">>

\* keyword.upper() in line.upper()
LineMatches(line, keyword) == Contains(Upper(line), Upper(keyword))

\* line.split(':', 1)[1].strip()
ValueAfterColon(line) ==
    Strip(DropFirst(line, Min({k \in 1..Len(line) : line[k] = ":"})))

\* the for loop: the first line that holds the keyword and a colon returns
RECURSIVE ScanLines(_, _)
ScanLines(lines, keyword) ==
    IF lines = <<>> THEN NoIssues
    ELSE IF LineMatches(Head(lines), keyword) /\ Contains(Head(lines), <<":">>)
         THEN ValueAfterColon(Head(lines))
         ELSE ScanLines(Tail(lines), keyword)

\* variant: the text is not searched for "sorry"
extract_key_info_no_sorry(text, keyword) ==
    IF text = <<>> THEN NoIssues ELSE ScanLines(Split(text, "\n"), keyword)

\* the loop of the variant below: the last matching line with a colon returns
RECURSIVE ScanLinesBackwards(_, _)
ScanLinesBackwards(lines, keyword) ==
    IF lines = <<>> THEN NoIssues
    ELSE LET last == lines[Len(lines)] IN
         IF LineMatches(last, keyword) /\ Contains(last, <<":">>)
         THEN ValueAfterColon(last)
         ELSE ScanLinesBackwards(SubSeq(lines, 1, Len(lines) - 1), keyword)

\* variant: a later matching line overrides an earlier one
extract_key_info_last_match(text, keyword) ==
    IF text = <<>> \/ Contains(Lower(text), Sorry) THEN NoIssues
    ELSE ScanLinesBackwards(Split(text, "\n"), keyword)

\* extract_key_info(result, keyword)
extract_key_info(text, keyword) ==
    IF text = <<>> \/ Contains(Lower(text), Sorry) THEN NoIssues
    ELSE ScanLines(Split(text, "\n"), keyword)

(* -------------------- generate_style_review_prompt -------------------- *)

\* The fixed text of a template is kept as one element of the string it is
\* part of; the texts the caller supplies stay character sequences.  The
\* backquote of the templates is written ' (a TLA+ string cannot hold one).
InstructionHeader ==
    "### Instruction:\nYou are a code reviewer. Analyze this Python code change and respond EXACTLY in the format below."

AfterRemovalInstruction ==
    " The function shown above is the current state after the removal."

CurrentFunctionLabel == "Current function '"

AfterRemovalLabel == "' (after removal):"

FullFunctionLabel == "Full function '"

FullFunctionLabelEnd == "':"

FenceOpen == "'''python"

FenceClose == "'''"

AddedHeader == "### ADDED:"

RemovedHeaderOnly == "### REMOVED (these lines were deleted from the function above):"

RemovedHeader == "### REMOVED:"

NoChanges == "No code changes detected."

ResponseFormat ==
    "### Response:\nSUMMARY: [One sentence describing what changed]\nISSUES: [List specific bugs/problems, or write \"None found\"]\nIMPROVEMENTS: [Suggest specific improvements, or write \"None needed\"]\nDECISION: [Yes/No] - [One sentence reason]"

NL == <<"\n">>

\* chunk.code for a CodeBlock, chunk.get('code', '') for a mapping
ChunkCode(chunk) ==
    IF chunk.type = "CodeBlock" THEN chunk.code
    ELSE IF "code" \in DOMAIN chunk THEN chunk.code ELSE <<>>

\* the fenced block of the f-strings: FenceOpen, newline, code, newline, FenceClose
Fenced(clean) == <<FenceOpen>> \o NL \o clean \o NL \o <<FenceClose>>

\* variant: the loop keeps the blocks whose cleaned code is empty
RECURSIVE FormatBlocksKeepingEmpty(_)
FormatBlocksKeepingEmpty(chunks) ==
    IF chunks = <<>> THEN <<>>
    ELSE <<Fenced(_clean_code(ChunkCode(Head(chunks))))>>
            \o FormatBlocksKeepingEmpty(Tail(chunks))

\* the loops that build added_blocks and deleted_blocks
RECURSIVE FormatBlocks(_)
FormatBlocks(chunks) ==
    IF chunks = <<>> THEN <<>>
    ELSE LET clean == _clean_code(ChunkCode(Head(chunks)))
         IN (IF clean # <<>> THEN <<Fenced(clean)>> ELSE <<>>)
               \o FormatBlocks(Tail(chunks))

\* variant: the deletions-only label is chosen whenever there are deletions
ContextSectionIgnoringAdditions(full_function_code, function_name, has_additions, has_deletions) ==
    IF full_function_code = <<>> THEN <<>>
    ELSE LET clean_full == _clean_code(full_function_code) IN
         IF has_deletions
         THEN <<CurrentFunctionLabel>> \o function_name \o <<AfterRemovalLabel>>
                 \o NL \o Fenced(clean_full) \o NL
         ELSE IF has_additions
         THEN <<FullFunctionLabel>> \o function_name \o <<FullFunctionLabelEnd>>
                 \o NL \o Fenced(clean_full) \o NL
         ELSE <<>>

\* context_section
ContextSection(full_function_code, function_name, has_additions, has_deletions) ==
    IF full_function_code = <<>> THEN <<>>
    ELSE LET clean_full == _clean_code(full_function_code) IN
         IF has_deletions /\ ~has_additions
         THEN <<CurrentFunctionLabel>> \o function_name \o <<AfterRemovalLabel>>
                 \o NL \o Fenced(clean_full) \o NL
         ELSE IF has_additions \/ (has_additions /\ has_deletions)
         THEN <<FullFunctionLabel>> \o function_name \o <<FullFunctionLabelEnd>>
                 \o NL \o Fenced(clean_full) \o NL
         ELSE <<>>

\* changes_section
ChangesSection(added_blocks, deleted_blocks) ==
    LET has_additions == added_blocks # <<>>
        has_deletions == deleted_blocks # <<>>
        added == IF added_blocks # <<>>
                 THEN <<AddedHeader>> \o NL \o Join(added_blocks, NL) \o NL
                 ELSE <<>>
        removed == IF deleted_blocks # <<>>
                   THEN (IF has_deletions /\ ~has_additions
                         THEN <<RemovedHeaderOnly>> ELSE <<RemovedHeader>>)
                           \o NL \o Join(deleted_blocks, NL) \o NL
                   ELSE <<>>
    IN IF added \o removed = <<>> THEN <<NoChanges>> \o NL ELSE added \o removed

\* CodeReviewPromptGenerator.generate_style_review_prompt
generate_style_review_prompt(added_code, deleted_code, full_function_code, function_name) ==
    LET added_blocks == FormatBlocks(added_code)
        deleted_blocks == FormatBlocks(deleted_code)
        has_additions == added_blocks # <<>>
        has_deletions == deleted_blocks # <<>>
        context_section == ContextSection(full_function_code, function_name,
                                          has_additions, has_deletions)
        changes_section == ChangesSection(added_blocks, deleted_blocks)
        instruction_context == IF has_deletions /\ ~has_additions
                               THEN <<AfterRemovalInstruction>> ELSE <<>>
    IN Strip(<<InstructionHeader>> \o instruction_context \o NL \o NL
                \o context_section \o changes_section
                \o NL \o <<ResponseFormat>>)

(* ------------------ generate_duplication_check_prompt ----------------- *)

DuplicationHeader ==
    "Check for code duplication. Respond EXACTLY in the format below."

CurrentCodeLabel == "Current code from '"

SimilarCodeLabel == "Similar code from '"

SimilarLabelEnd == "% similar):"

DuplicationFormat ==
    "You MUST respond in this EXACT format:\n\nDUPLICATION LEVEL: [None/Low/Medium/High]\n\nANALYSIS: [Are these actual duplicates? One sentence.]\n\nRECOMMENDATION: [What action to take? One sentence.]\n\nDo not add extra text."

unknown_file == <<"u", "n", "k", "n", "o", "w", "n", "_", "f", "i", "l", "e">>

NotAvailable == <<"N", "/", "A">>

Digits == <<"0", "1", "2", "3", "4", "5", "6", "7", "8", "9">>

\* str(n) for a natural number, as the f-string formats the score
RECURSIVE NatToStr(_)
NatToStr(n) ==
    IF n < 10 THEN <<Digits[n + 1]>>
    ELSE NatToStr(n \div 10) \o <<Digits[(n % 10) + 1]>>

\* most_similar.get('file', 'unknown_file')
MatchFile(m) == IF "file" \in DOMAIN m THEN m.file ELSE unknown_file

\* most_similar.get('code', '')
MatchCode(m) == IF "code" \in DOMAIN m THEN m.code ELSE <<>>

\* most_similar.get('similarity', 'N/A'), formatted
MatchSimilarity(m) ==
    IF "similarity" \in DOMAIN m THEN NatToStr(m.similarity) ELSE NotAvailable

\* the prompt for a snippet and the match most_similar
DuplicationPrompt(code_snippet, most_similar, function_name) ==
    Strip(<<DuplicationHeader>> \o NL \o NL
            \o <<CurrentCodeLabel>> \o function_name \o <<"':">> \o NL
            \o Fenced(_clean_code(code_snippet)) \o NL \o NL
            \o <<SimilarCodeLabel>> \o MatchFile(most_similar) \o <<"' (">>
            \o MatchSimilarity(most_similar) \o <<SimilarLabelEnd>> \o NL
            \o Fenced(_clean_code(MatchCode(most_similar))) \o NL \o NL
            \o <<DuplicationFormat>>)

\* variant: the last entry of similar_codes is taken
duplication_prompt_last_match(code_snippet, similar_codes, function_name) ==
    IF Strip(code_snippet) = <<>> \/ similar_codes = <<>> THEN <<>>
    ELSE DuplicationPrompt(code_snippet, similar_codes[Len(similar_codes)], function_name)

\* CodeReviewPromptGenerator.generate_duplication_check_prompt
generate_duplication_check_prompt(code_snippet, similar_codes, function_name) ==
    IF Strip(code_snippet) = <<>> \/ similar_codes = <<>> THEN <<>>
    ELSE DuplicationPrompt(code_snippet, similar_codes[1], function_name)

(* ------------------------ get_prompt_generator ------------------------ *)

Deepseek == <<"d", "e", "e", "p", "s", "e", "e", "k">>

Coder == <<"c", "o", "d", "e", "r">>

\* variant: the name is compared as it is spelled
get_prompt_generator_case_sensitive(model_name) ==
    IF Contains(model_name, Deepseek) \/ Contains(model_name, Coder)
    THEN "MinimalCodeReviewPrompts" ELSE "CodeReviewPromptGenerator"

\* get_prompt_generator(model_name): the class of the generator returned
get_prompt_generator(model_name) ==
    IF Contains(Lower(model_name), Deepseek) \/ Contains(Lower(model_name), Coder)
    THEN "MinimalCodeReviewPrompts" ELSE "CodeReviewPromptGenerator"

(* ----------------------- inputs of the operations --------------------- *)

\* spaces and tabs, both line boundaries, and a visible character
CodeAlphabet == {" ", "\t", "\n", "\r", "a"}

CodeTexts == StringsUpTo(CodeAlphabet, MaxLen)

\* the pieces review texts are made of
ReviewPieces ==
    {<<"I", "S", "S", "U", "E", "S">>,
     <<"d", "e", "c", "i", "s", "i", "o", "n", ":">>,
     <<"S", "o", "r", "r", "y">>,
     <<":">>, <<" ", "x">>, <<"\n">>}

ReviewTexts == {Join(ps, <<>>) : ps \in StringsUpTo(ReviewPieces, MaxPieces)}

\* the keywords generate_summary_prompt looks for in the style result
Keywords == {<<"I", "S", "S", "U", "E", "S">>, <<"D", "E", "C", "I", "S", "I", "O", "N">>}

\* code texts of chunks, snippets and matches: blank, one line, two lines
\* of different indentation
ChunkCodes == {<<" ">>, <<"a">>, <<" ", "a", "\n", " ", " ", "b">>}

\* CodeBlock instances, mappings with a 'code' key and a mapping without
Chunks ==
    {[type |-> "CodeBlock", code |-> c] :
        c \in {<<" ", "a", "\n", " ", " ", "b">>, <<" ">>}}
        \cup {[type |-> "dict", code |-> c] : c \in {<<"a">>, <<>>}}
        \cup {[type |-> "dict"]}

ChunkLists == StringsUpTo(Chunks, MaxChunks)

FunctionNames == {<<>>, <<"f">>}

FullFunctionCodes == {<<>>, <<" ">>, <<" ", "a", "\n", " ", " ", "b">>}

StyleInputs == ChunkLists \X ChunkLists \X FullFunctionCodes \X FunctionNames

\* entries of similar_codes: each key present or absent
Matches ==
    {[file |-> <<"p">>, code |-> c, similarity |-> n] : c \in ChunkCodes, n \in {7, 85}}
        \cup {[code |-> c, similarity |-> 85] : c \in ChunkCodes}
        \cup {[file |-> <<"q">>, code |-> <<"a">>], [file |-> <<"p">>], [similarity |-> 7]}
        \cup {[type |-> "dict"]}

MatchLists == StringsUpTo(Matches, MaxMatches)

DuplicationInputs == (ChunkCodes \cup {<<>>}) \X MatchLists \X FunctionNames

\* the pieces model names are made of
NamePieces ==
    {<<"d", "e", "e", "p">>, <<"s", "e", "e", "k">>, <<"S", "e", "e", "k">>, <<"C", "O", "D", "E", "R">>,
     <<"c", "o">>, <<"d", "e", "r">>, <<"g", "p", "t">>, <<"-">>, <<"4">>}

ModelNames == {Join(ps, <<>>) : ps \in StringsUpTo(NamePieces, MaxNamePieces)}

(* ----------------------------- behaviour ------------------------------ *)

\* nothing has been returned yet
None == <<"<none>">>

InitClean ==
    /\ op = "init"
    /\ args \in CodeTexts
    /\ result = None

CallCleanCode ==
    /\ op = "init"
    /\ op' = "_clean_code"
    /\ result' = _clean_code(args)
    /\ UNCHANGED args

NextClean == CallCleanCode

SpecClean == InitClean /\ [][NextClean]_vars

InitExtract ==
    /\ op = "init"
    /\ args \in ReviewTexts \X Keywords
    /\ result = None

CallExtractKeyInfo ==
    /\ op = "init"
    /\ op' = "extract_key_info"
    /\ result' = extract_key_info(args[1], args[2])
    /\ UNCHANGED args

NextExtract == CallExtractKeyInfo

SpecExtract == InitExtract /\ [][NextExtract]_vars

InitStyle ==
    /\ op = "init"
    /\ args \in StyleInputs
    /\ result = None

CallStyleReviewPrompt ==
    /\ op = "init"
    /\ op' = "generate_style_review_prompt"
    /\ result' = generate_style_review_prompt(args[1], args[2], args[3], args[4])
    /\ UNCHANGED args

NextStyle == CallStyleReviewPrompt

SpecStyle == InitStyle /\ [][NextStyle]_vars

InitDuplication ==
    /\ op = "init"
    /\ args \in DuplicationInputs
    /\ result = None

CallDuplicationCheckPrompt ==
    /\ op = "init"
    /\ op' = "generate_duplication_check_prompt"
    /\ result' = generate_duplication_check_prompt(args[1], args[2], args[3])
    /\ UNCHANGED args

NextDuplication == CallDuplicationCheckPrompt

SpecDuplication == InitDuplication /\ [][NextDuplication]_vars

InitSelect ==
    /\ op = "init"
    /\ args \in ModelNames
    /\ result = None

CallGetPromptGenerator ==
    /\ op = "init"
    /\ op' = "get_prompt_generator"
    /\ result' = get_prompt_generator(args)
    /\ UNCHANGED args

NextSelect == CallGetPromptGenerator

SpecSelect == InitSelect /\ [][NextSelect]_vars

(* ------------------- properties of _clean_code ------------------------ *)

\* the text has at least one non-blank line
HasNonBlankLine(code) == Strip(code) # <<>>

\* number of blank lines before the first non-blank line
LeadingBlankLines(lines) ==
    Min({k \in 1..Len(lines) : Strip(lines[k]) # <<>>}) - 1

InLines == SplitLines(args)

OutLines == SplitLines(result)

\* C1: with m the minimum leading-whitespace length over the non-blank
\* lines of the input, every non-blank output line is the corresponding
\* input line without its first m characters (leading blank lines dropped).
\* The lines are compared up to trailing whitespace, so a violation is one
\* of indentation and a violation of the literal statement as well.
C1_DedentByInputMinimum ==
    (op = "_clean_code" /\ HasNonBlankLine(args)) =>
        LET m == MinIndent(InLines)
            lead == LeadingBlankLines(InLines)
        IN \A k \in 1..Len(OutLines) :
              OutLines[k] # <<>> =>
                  /\ k + lead <= Len(InLines)
                  /\ RStrip(OutLines[k]) = RStrip(DropFirst(InLines[k + lead], m))

\* C2: relative indentation is preserved: for any two non-blank lines the
\* difference of their leading-whitespace lengths is the same in the output
\* as in the input.
C2_RelativeIndentPreserved ==
    (op = "_clean_code" /\ HasNonBlankLine(args)) =>
        LET lead == LeadingBlankLines(InLines)
        IN \A i, j \in 1..Len(OutLines) :
              (OutLines[i] # <<>> /\ OutLines[j] # <<>>) =>
                  LeadingWs(OutLines[i]) - LeadingWs(OutLines[j])
                    = LeadingWs(InLines[i + lead]) - LeadingWs(InLines[j + lead])

\* C3: _clean_code is idempotent, cleaning a cleaned text returns it
\* unchanged, and an empty or all-blank text is cleaned to the empty text.
C3_Idempotent ==
    op = "_clean_code" =>
        /\ _clean_code(result) = result
        /\ (~HasNonBlankLine(args) => result = <<>>)

\* a text with inner blank and indented lines that cleaning changed
C3_Witness ==
    /\ op = "_clean_code"
    /\ result # args
    /\ Len(OutLines) >= 3
    /\ \E k \in 1..Len(OutLines) : OutLines[k] = <<>>
    /\ \E k \in 1..Len(InLines) : InLines[k] # <<>> /\ Strip(InLines[k]) = <<>>

TextLines == Split(args[1], "\n")

\* the lines of the text that hold the keyword, in document order
MatchingLines == {k \in 1..Len(TextLines) : LineMatches(TextLines[k], args[2])}

HasColon(line) == \E k \in 1..Len(line) : line[k] = ":"

SaysSorry == Contains(Lower(args[1]), Sorry)

\* C4 as stated: the sentinel is returned when the text is empty, or holds
\* "sorry" in any case, or no line holds the label, or the first line that
\* holds the label has no colon, whatever later lines hold.
C4_SentinelWhenFirstMatchHasNoColon ==
    (/\ op = "extract_key_info"
     /\ \/ args[1] = <<>>
        \/ SaysSorry
        \/ MatchingLines = {}
        \/ ~HasColon(TextLines[Min(MatchingLines)]))
    => result = NoIssues

\* C4 amended: the sentinel is returned when the text is empty, or holds
\* "sorry" in any case, or no line holds the label, or no line that holds
\* the label has a colon.
C4_SentinelWhenNoMatchHasColon ==
    (/\ op = "extract_key_info"
     /\ \/ args[1] = <<>>
        \/ SaysSorry
        \/ MatchingLines = {}
        \/ \A k \in MatchingLines : ~HasColon(TextLines[k]))
    => result = NoIssues

\* a text without "sorry" whose lines holding the label have no colon,
\* beside a line with a colon that does not hold the label
C4_Witness ==
    /\ op = "extract_key_info"
    /\ ~SaysSorry
    /\ Cardinality(MatchingLines) >= 2
    /\ \A k \in MatchingLines : ~HasColon(TextLines[k])
    /\ \E k \in 1..Len(TextLines) : HasColon(TextLines[k])
    /\ result = NoIssues

\* C5: first match wins: for a non-empty text without "sorry", when the
\* first line holding the label has a colon the result is the text after
\* that line's first colon, trimmed, whatever later lines hold.
C5_FirstMatchWins ==
    (/\ op = "extract_key_info"
     /\ args[1] # <<>>
     /\ ~SaysSorry
     /\ MatchingLines # {}
     /\ HasColon(TextLines[Min(MatchingLines)]))
    => LET line == TextLines[Min(MatchingLines)]
           colon == Min({k \in 1..Len(line) : line[k] = ":"})
       IN result = Strip(SubSeq(line, colon + 1, Len(line)))

\* two lines hold the label and a colon, with different values
C5_Witness ==
    /\ op = "extract_key_info"
    /\ ~SaysSorry
    /\ \E i, j \in MatchingLines :
          /\ i = Min(MatchingLines)
          /\ i < j
          /\ HasColon(TextLines[i])
          /\ HasColon(TextLines[j])
          /\ ValueAfterColon(TextLines[i]) # ValueAfterColon(TextLines[j])
          /\ result = ValueAfterColon(TextLines[i])
          /\ result # <<>>

(* ------------ properties of generate_style_review_prompt -------------- *)

\* how many times the element e occurs in the string s
Count(s, e) == Cardinality({k \in 1..Len(s) : s[k] = e})

\* some chunk of the list has a non-empty normalized text
Survives(chunks) ==
    \E k \in 1..Len(chunks) : _clean_code(ChunkCode(chunks[k])) # <<>>

\* the number of chunks of the list whose normalized text is non-empty
Survivors(chunks) ==
    Cardinality({k \in 1..Len(chunks) : _clean_code(ChunkCode(chunks[k])) # <<>>})

Additions == Survives(args[1])

Deletions == Survives(args[2])

\* C6: with full-function text, the prompt has exactly one context label:
\* "Current function <name> (after removal):" for deletions without
\* additions, "Full function <name>:" when there are additions; without
\* additions and deletions, or without full-function text, it has none.
C6_ContextSectionPolicy ==
    op = "generate_style_review_prompt" =>
        LET current == Count(result, CurrentFunctionLabel)
            full == Count(result, FullFunctionLabel)
        IN IF args[3] # <<>> /\ Deletions /\ ~Additions
           THEN /\ current = 1 /\ full = 0
                /\ Contains(result, <<CurrentFunctionLabel>> \o args[4]
                                       \o <<AfterRemovalLabel>>)
           ELSE IF args[3] # <<>> /\ Additions
           THEN /\ current = 0 /\ full = 1
                /\ Contains(result, <<FullFunctionLabel>> \o args[4]
                                       \o <<FullFunctionLabelEnd>>)
           ELSE current = 0 /\ full = 0

\* additions and deletions together with a full-function text
C6_Witness ==
    /\ op = "generate_style_review_prompt"
    /\ args[3] # <<>>
    /\ Additions /\ Deletions
    /\ args[4] # <<>>
    /\ Count(result, FullFunctionLabel) = 1

\* C7: chunks whose normalized code is empty are dropped; the prompt has an
\* ADDED section exactly when an added chunk is left, a REMOVED section
\* exactly when a deleted chunk is left, labelled with the parenthetical
\* exactly when no added chunk is left, and the line "No code changes
\* detected." exactly when no chunk of either kind is left.
C7_ChangesSectionPolicy ==
    op = "generate_style_review_prompt" =>
        /\ Count(result, AddedHeader) = (IF Additions THEN 1 ELSE 0)
        /\ Count(result, RemovedHeader) = (IF Deletions /\ Additions THEN 1 ELSE 0)
        /\ Count(result, RemovedHeaderOnly) = (IF Deletions /\ ~Additions THEN 1 ELSE 0)
        /\ Count(result, NoChanges) = (IF ~Additions /\ ~Deletions THEN 1 ELSE 0)
        /\ Count(result, FenceOpen) =
              Survivors(args[1]) + Survivors(args[2])
                + Count(result, CurrentFunctionLabel) + Count(result, FullFunctionLabel)

\* deleted chunks only, one of them dropped for its blank code
C7_Witness ==
    /\ op = "generate_style_review_prompt"
    /\ args[1] # <<>> /\ ~Additions
    /\ Deletions /\ Survivors(args[2]) < Len(args[2])
    /\ Count(result, RemovedHeaderOnly) = 1

(* ---------- properties of generate_duplication_check_prompt ----------- *)

\* C8: the result is the empty string exactly when the snippet is blank or
\* similar_codes is empty; otherwise it is the prompt of the snippet and the
\* first entry alone, with "unknown_file" and "N/A" for an absent file and
\* similarity.
C8_EmptyOrFirstMatch ==
    op = "generate_duplication_check_prompt" =>
        /\ result = <<>> <=> (Strip(args[1]) = <<>> \/ args[2] = <<>>)
        /\ result # <<>> =>
              LET first == args[2][1]
                  file == IF "file" \in DOMAIN first THEN first.file ELSE unknown_file
                  score == IF "similarity" \in DOMAIN first
                           THEN NatToStr(first.similarity) ELSE NotAvailable
                  code == IF "code" \in DOMAIN first THEN first.code ELSE <<>>
              IN /\ result = generate_duplication_check_prompt(args[1], <<first>>, args[3])
                 /\ Contains(result, <<SimilarCodeLabel>> \o file \o <<"' (">>
                                        \o score \o <<SimilarLabelEnd>> \o NL
                                        \o Fenced(_clean_code(code)))
                 /\ Contains(result, <<CurrentCodeLabel>> \o args[3] \o <<"':">> \o NL
                                        \o Fenced(_clean_code(args[1])))
                 /\ Count(result, FenceOpen) = 2

\* two entries that differ, the first without file and similarity
C8_Witness ==
    /\ op = "generate_duplication_check_prompt"
    /\ result # <<>>
    /\ Len(args[2]) >= 2
    /\ args[2][1] # args[2][2]
    /\ "file" \notin DOMAIN args[2][1]
    /\ "similarity" \notin DOMAIN args[2][1]
    /\ "file" \in DOMAIN args[2][2]
    /\ Contains(result, unknown_file)
    /\ Contains(result, NotAvailable)

(* ---------------- properties of get_prompt_generator ------------------ *)

\* the characters a and b are the same letter in either case
SameLetter(a, b) == Lower(<<a>>) = Lower(<<b>>)

\* word occurs in name at some position, letter case ignored
OccursIgnoringCase(name, word) ==
    \E i \in 0..(Len(name) - Len(word)) :
        \A k \in 1..Len(word) : SameLetter(name[i + k], word[k])

\* C9: the selector returns the Minimal generator exactly when the name
\* holds "deepseek" or "coder" in any letter case, and the Full generator
\* otherwise, the empty name included.
C9_SelectorCaseInsensitive ==
    op = "get_prompt_generator" =>
        /\ result \in {"MinimalCodeReviewPrompts", "CodeReviewPromptGenerator"}
        /\ result = "MinimalCodeReviewPrompts" <=>
              (OccursIgnoringCase(args, Deepseek) \/ OccursIgnoringCase(args, Coder))
        /\ args = <<>> => result = "CodeReviewPromptGenerator"

\* a name that holds a keyword only when its case is ignored
C9_Witness ==
    /\ op = "get_prompt_generator"
    /\ result = "MinimalCodeReviewPrompts"
    /\ ~Contains(args, Deepseek)
    /\ ~Contains(args, Coder)
    /\ OccursIgnoringCase(args, Deepseek)

====
